---- MODULE Spec2Model ----
(***************************************************************************)
(* Client-side order reconciliation of the rider pages.                    *)
(*                                                                         *)
(* Three independent page scripts keep a list of order cards in the DOM:   *)
(*   "AO"  static/js/rider_available_orders.js                             *)
(*   "RD"  static/js/rider_dashboard.js                                    *)
(*   "RW"  class RiderWebSocket (unnamed/part_000)                         *)
(* A behaviour is the life of one page running one of the scripts; `page`  *)
(* says which.                                                             *)
(*                                                                         *)
(* Timers and promise callbacks hold on to the DOM element they captured.  *)
(* An attached card carries what is captured on it: `arm`/`armR` count the *)
(* removal timers armed on the element, `reqs` lists the accept requests   *)
(* whose callback captured its button.  When the element is detached       *)
(* (removed, or dropped by container.innerHTML = ...) the callbacks stay   *)
(* alive: its timers move to `orphans`/`orphansR`, its requests to `loose`.*)
(* What they later do to the detached element cannot be seen any more.     *)
(***************************************************************************)
EXTENDS Integers, Sequences, FiniteSets, TLC

\* ---- bounds ------------------------------------------------------------
MaxId == 2          \* order ids are 1..MaxId
MaxLen == 2         \* longest order list of a snapshot response
MaxFetches == 1     \* snapshot fetches in flight
MaxPending == 2     \* accept requests in flight
MaxTimers == 1      \* removal timers armed and not yet fired

Ids == 1..MaxId
Vers == {"a", "b"}                    \* two payloads for the same order id
Order == [id : Ids, ver : Vers]       \* an order record of a push or of a snapshot

RECURSIVE SeqsUpTo(_, _)
SeqsUpTo(S, n) ==
    IF n = 0 THEN {<<>>}
    ELSE LET shorter == SeqsUpTo(S, n - 1)
         IN  shorter \cup {Append(s, x) : s \in {t \in shorter : Len(t) = n - 1}, x \in S}

OrderLists == SeqsUpTo(Order, MaxLen)

\* the most cards a container holds: one per listed order, or one per order id
MaxCards == IF MaxLen > MaxId THEN MaxLen ELSE MaxId

VARIABLES
    page,              \* which script runs on this page
    cards,             \* children of the order container, first child first
    orphans,           \* armed removal timers whose element is detached
    orphansR,          \* RD: those of them that carry a redirect_url
    loose,             \* accept requests in flight with no attached button, per id
    containerVisible,  \* AO: container.style.display is 'block'
    noOrdersVisible,   \* the "no orders" message is shown
    loadingVisible,    \* AO: ordersLoading.style.display is 'block'
    fetches,           \* snapshot fetches in flight, counted per set of ids that a
                       \* push removed since the fetch was issued
    nav,               \* "none", "scheduled" (reload/redirect timer armed), "gone"
    removedIds,        \* history: ids removed by a push since the last snapshot
    last,              \* history: the handler that ran last
    server,            \* the order list the server would answer a snapshot fetch with
    served,            \* the snapshot fetches in flight and what the server answered
    legacy,            \* the socket.io client also delivers 'reconnect' on the socket
    up,                \* the push server is reachable
    socket,            \* the socket the script's `socket` variable refers to
    stale,             \* RD: earlier sockets that are still alive
    isConnected,       \* RD: the flag of the same name
    sellerShown,       \* seller page: the status the order's badge and buttons show
    sellerReqs,        \* seller page: status updates in flight
    sellerToast,       \* seller page: the toast shown last
    sellerLoads,       \* seller page: loadOrders requests in flight, oldest first
    sellerList,        \* seller page: what orders-container shows
    sellerPager,       \* seller page: the tab whose pagination links are rendered
    sellerTab,         \* history: the status and page asked for last
    hasContainer,      \* the page has the element availableOrdersContainer
    hasTemplate        \* the page has the element orderCardTemplate

pullVars == <<server, served>>

connVars == <<legacy, up, socket, stale, isConnected>>

loadVars == <<sellerLoads, sellerList, sellerPager, sellerTab>>

sellerVars == <<sellerShown, sellerReqs, sellerToast, loadVars>>

domVars == <<hasContainer, hasTemplate>>

\* what the handlers of the order cards do not touch
others == <<pullVars, connVars, sellerVars, domVars>>

vars == <<page, cards, orphans, orphansR, loose, containerVisible, noOrdersVisible,
          loadingVisible, fetches, nav, removedIds, last, others>>

\* no socket created yet
NoSocket == [st |-> "none", left |-> 0, sent |-> <<>>]

\* the parts of the page a specification does not exercise
IdlePull == server = <<>> /\ served = <<>>

IdleConn ==
    /\ legacy = FALSE
    /\ up = TRUE
    /\ socket = NoSocket
    /\ stale = <<>>
    /\ isConnected = FALSE

\* orders-container is empty
NoList == [status |-> "all", pg |-> 1, kind |-> "none"]

IdleLoads ==
    /\ sellerLoads = <<>>
    /\ sellerList = NoList
    /\ sellerPager = "none"
    /\ sellerTab = [status |-> "all", pg |-> 1]

IdleSeller ==
    /\ sellerShown = "pending"
    /\ sellerReqs = <<>>
    /\ sellerToast = "none"
    /\ IdleLoads

DomPresent == hasContainer = TRUE /\ hasTemplate = TRUE

\* ---- DOM helpers -------------------------------------------------------
\* template.content.cloneNode(true) / createOrderElement filled from an order
NewCard(o) ==
    [id |-> o.id, ver |-> o.ver, arm |-> 0, armR |-> 0,
     dis |-> FALSE, lab |-> "Accept", reqs |-> <<>>]

CardIds(cs) == [i \in 1..Len(cs) |-> cs[i].id]

CardOrders(cs) == [i \in 1..Len(cs) |-> [id |-> cs[i].id, ver |-> cs[i].ver]]

HasId(cs, id) == \E i \in 1..Len(cs) : cs[i].id = id

\* document.getElementById / querySelector: the first match in document order
FirstIdx(cs, id) ==
    CHOOSE j \in 1..Len(cs) : cs[j].id = id /\ \A k \in 1..(j - 1) : cs[k].id # id

RemoveAt(cs, k) == [i \in 1..(Len(cs) - 1) |-> IF i < k THEN cs[i] ELSE cs[i + 1]]

RemoveReq(rs, j) == [i \in 1..(Len(rs) - 1) |-> IF i < j THEN rs[i] ELSE rs[i + 1]]

Count(cs, id) == Cardinality({i \in 1..Len(cs) : cs[i].id = id})

RECURSIVE SumArm(_)
SumArm(cs) == IF cs = <<>> THEN 0 ELSE Head(cs).arm + SumArm(Tail(cs))

RECURSIVE SumArmR(_)
SumArmR(cs) == IF cs = <<>> THEN 0 ELSE Head(cs).armR + SumArmR(Tail(cs))

RECURSIVE SumReqs(_)
SumReqs(cs) == IF cs = <<>> THEN 0 ELSE Len(Head(cs).reqs) + SumReqs(Tail(cs))

RECURSIVE SumLoose(_, _)
SumLoose(f, n) == IF n = 0 THEN 0 ELSE f[n] + SumLoose(f, n - 1)

RECURSIVE SumFetches(_, _)
SumFetches(f, S) ==
    IF S = {} THEN 0
    ELSE LET m == CHOOSE x \in S : TRUE IN f[m] + SumFetches(f, S \ {m})

\* the requests captured on the cards of cs, counted per order id
ReqsOf(cs) ==
    [id \in Ids |-> SumReqs(SelectSeq(cs, LAMBDA c : c.id = id))]

\* the callbacks of detached elements stay alive
Detach(l, cs) == [id \in Ids |-> l[id] + ReqsOf(cs)[id]]

TotalTimers == SumArm(cards) + SumArmR(cards) + orphans + orphansR

TotalPending == SumReqs(cards) + SumLoose(loose, MaxId)

TotalFetches == SumFetches(fetches, SUBSET Ids)

\* accept requests in flight for one order id
PendingOf(cs, l, id) == ReqsOf(cs)[id] + l[id]

PendingFor(id) == PendingOf(cards, loose, id)

NoFetches == [m \in SUBSET Ids |-> 0]

NoLoose == [id \in Ids |-> 0]

\* a fetch in flight misses the removal of id
Miss(f, id) ==
    [m \in SUBSET Ids |-> IF id \notin m THEN 0 ELSE f[m] + f[m \ {id}]]

\* the handler that ran: its name, the order id it was about, the position of the
\* card whose button it captured (0: none attached), the order list it applied,
\* and whether it showed the 'New Order!' toast
EvOf(op, id, k, list) == [op |-> op, id |-> id, k |-> k, list |-> list, toast |-> FALSE]

Ev(op, id) == EvOf(op, id, 0, <<>>)

\* a handler that ends with showToast('New Order!', ...)
EvToast(op, id) == [Ev(op, id) EXCEPT !.toast = TRUE]

Alive == nav # "gone"

\* what the rider sees of the list
Displayed == IF page = "AO" /\ ~containerVisible THEN <<>> ELSE cards

\* ---- rider_available_orders.js ----------------------------------------
\* addOrderCard refreshing the card it finds instead of leaving it alone
addOrderCard_refresh(cs, order) ==
    IF HasId(cs, order.id)
    THEN [cs EXCEPT ![FirstIdx(cs, order.id)].ver = order.ver]
    ELSE <<NewCard(order)>> \o cs

\* addOrderCard: no-op when a card of the id exists, else insert as first child
addOrderCard(cs, order) ==
    IF HasId(cs, order.id) THEN cs
    ELSE <<NewCard(order)>> \o cs

\* data.orders.forEach(order => addOrderCard(order))
RECURSIVE addOrderCards(_, _)
addOrderCards(cs, orders) ==
    IF orders = <<>> THEN cs
    ELSE addOrderCards(addOrderCard(cs, Head(orders)), Tail(orders))

\* the branch test asking for more than one order
snapshotShown_strict(success, orders) == success /\ Len(orders) > 1

\* the branch taken by the .then(data => ...) of loadAvailableOrders
snapshotShown(success, orders) == success /\ Len(orders) > 0

\* loadAvailableOrders putting the cards of the list in front of what is there
snapshotCards_append(cs, success, orders) ==
    IF snapshotShown(success, orders)
    THEN [i \in 1..Len(orders) |-> NewCard(orders[Len(orders) + 1 - i])] \o cs
    ELSE cs

\* loadAvailableOrders without container.innerHTML = ''
snapshotCards_keep(cs, success, orders) ==
    IF snapshotShown(success, orders)
    THEN addOrderCards(cs, orders)
    ELSE cs

\* the container children after the .then(data => ...) of loadAvailableOrders
snapshotCards(cs, success, orders) ==
    IF snapshotShown(success, orders)
    THEN addOrderCards(<<>>, orders)
    ELSE cs

\* removeOrderCard up to the setTimeout: opacity 0 and one more timer on the card
removeOrderCard(cs, id) ==
    IF HasId(cs, id)
    THEN [cs EXCEPT ![FirstIdx(cs, id)].arm = @ + 1]
    ELSE cs

AO_Init ==
    /\ cards = <<>>
    /\ orphans = 0
    /\ orphansR = 0
    /\ loose = NoLoose
    /\ containerVisible = FALSE
    /\ noOrdersVisible = FALSE
    /\ loadingVisible = TRUE
    /\ fetches = [NoFetches EXCEPT ![{}] = 1]
    /\ nav = "none"
    /\ removedIds = {}
    /\ last = Ev("init", 0)

\* loadAvailableOrders up to the fetch: 60 s timer, refresh and retry buttons, reconnect
AO_loadAvailableOrders ==
    /\ page = "AO" /\ Alive
    /\ TotalFetches < MaxFetches
    /\ loadingVisible' = TRUE
    /\ noOrdersVisible' = FALSE
    /\ containerVisible' = FALSE
    /\ fetches' = [fetches EXCEPT ![{}] = @ + 1]
    /\ last' = Ev("load", 0)
    /\ UNCHANGED others
    /\ UNCHANGED <<page, cards, orphans, orphansR, loose, nav, removedIds>>

\* the response of a snapshot fetch, parsed as JSON
AO_snapshotResponse(m, success, orders) ==
    /\ page = "AO" /\ Alive
    /\ fetches[m] > 0
    /\ cards' = snapshotCards(cards, success, orders)
    /\ orphans' = IF snapshotShown(success, orders) THEN orphans + SumArm(cards) ELSE orphans
    /\ loose' = IF snapshotShown(success, orders) THEN Detach(loose, cards) ELSE loose
    /\ loadingVisible' = FALSE
    /\ containerVisible' = snapshotShown(success, orders)
    /\ noOrdersVisible' = ~snapshotShown(success, orders)
    /\ fetches' = [fetches EXCEPT ![m] = @ - 1]
    /\ removedIds' = IF success THEN {} ELSE removedIds
    /\ last' = EvOf(IF success THEN "snapshot" ELSE "snapshotRejected", 0, 0, orders)
    /\ UNCHANGED others
    /\ UNCHANGED <<page, orphansR, nav>>

\* the .catch of loadAvailableOrders: network error or unparsable body
AO_snapshotError(m) ==
    /\ page = "AO" /\ Alive
    /\ fetches[m] > 0
    /\ loadingVisible' = FALSE
    /\ fetches' = [fetches EXCEPT ![m] = @ - 1]
    /\ last' = Ev("snapshotError", 0)
    /\ UNCHANGED others
    /\ UNCHANGED <<page, cards, orphans, orphansR, loose, containerVisible,
                   noOrdersVisible, nav, removedIds>>

\* handleNewOrder: new_delivery_opportunity, new_available_order, new_order_confirmed
AO_handleNewOrder(order) ==
    /\ page = "AO" /\ Alive
    /\ containerVisible' = TRUE
    /\ noOrdersVisible' = FALSE
    /\ cards' = addOrderCard(cards, order)
    /\ last' = EvToast(IF HasId(cards, order.id) THEN "addDup" ELSE "add", order.id)
    /\ UNCHANGED others
    /\ UNCHANGED <<page, orphans, orphansR, loose, loadingVisible, fetches, nav, removedIds>>

\* handleOrderTaken
AO_handleOrderTaken(id) ==
    /\ page = "AO" /\ Alive
    /\ TotalTimers < MaxTimers
    /\ cards' = removeOrderCard(cards, id)
    /\ removedIds' = removedIds \cup {id}
    /\ fetches' = Miss(fetches, id)
    /\ last' = Ev("taken", id)
    /\ UNCHANGED others
    /\ UNCHANGED <<page, orphans, orphansR, loose, containerVisible, noOrdersVisible,
                   loadingVisible, nav>>

\* handleOrderAccepted removing the card whoever accepted the order
handleOrderAccepted_any(cs, id, other) == removeOrderCard(cs, id)

\* handleOrderAccepted on the container children; other is (data.rider_id != riderId)
handleOrderAccepted(cs, id, other) ==
    IF other THEN removeOrderCard(cs, id) ELSE cs

\* handleOrderAccepted: other is (data.rider_id != riderId)
AO_handleOrderAccepted(id, other) ==
    /\ page = "AO" /\ Alive
    /\ TotalTimers < MaxTimers
    /\ cards' = handleOrderAccepted(cards, id, other)
    /\ removedIds' = IF other THEN removedIds \cup {id} ELSE removedIds
    /\ fetches' = IF other THEN Miss(fetches, id) ELSE fetches
    /\ last' = Ev(IF other THEN "acceptedByOther" ELSE "acceptedBySelf", id)
    /\ UNCHANGED others
    /\ UNCHANGED <<page, orphans, orphansR, loose, containerVisible, noOrdersVisible,
                   loadingVisible, nav>>

\* the setTimeout callback of removeOrderCard, 300 ms after it was armed;
\* k is the position of the captured card, 0 when that card is detached
AO_fadeTimer(k) ==
    /\ page = "AO" /\ Alive
    /\ IF k = 0
       THEN /\ orphans > 0
            /\ orphans' = orphans - 1
            /\ UNCHANGED <<cards, loose>>
       ELSE /\ k \in 1..Len(cards)
            /\ cards[k].arm > 0
            /\ cards' = RemoveAt(cards, k)
            /\ orphans' = orphans + cards[k].arm - 1
            /\ loose' = Detach(loose, <<cards[k]>>)
    /\ containerVisible' = IF cards' = <<>> THEN FALSE ELSE containerVisible
    /\ noOrdersVisible' = IF cards' = <<>> THEN TRUE ELSE noOrdersVisible
    /\ last' = Ev("fadeTimer", IF k = 0 THEN 0 ELSE cards[k].id)
    /\ UNCHANGED others
    /\ UNCHANGED <<page, orphansR, loadingVisible, fetches, nav, removedIds>>

\* window.acceptOrder up to the fetch, confirm() answered yes.  viaCard: the click
\* on the card's own accept button; otherwise the details modal's accept button
\* or any other caller of the global function
AO_acceptOrder(id, viaCard) ==
    /\ page = "AO" /\ Alive
    /\ TotalPending < MaxPending
    /\ viaCard => /\ HasId(cards, id)
                  /\ containerVisible
                  /\ ~cards[FirstIdx(cards, id)].dis
    /\ IF HasId(cards, id)
       THEN /\ cards' = [cards EXCEPT ![FirstIdx(cards, id)] =
                            [@ EXCEPT !.dis = TRUE, !.lab = "Accepting",
                                      !.reqs = Append(@, "Accept")]]
            /\ UNCHANGED loose
       ELSE /\ loose' = [loose EXCEPT ![id] = @ + 1]
            /\ UNCHANGED cards
    /\ last' = Ev("accept", id)
    /\ UNCHANGED others
    /\ UNCHANGED <<page, orphans, orphansR, containerVisible, noOrdersVisible,
                   loadingVisible, fetches, nav, removedIds>>

\* the request of card k (k = 0: a request with no attached button) completes
TakeRequest(cs, l, k, j, id) ==
    IF k = 0
    THEN <<cs, [l EXCEPT ![id] = @ - 1]>>
    ELSE <<[cs EXCEPT ![k].reqs = RemoveReq(@, j)], l>>

IsRequest(k, j, id) ==
    IF k = 0
    THEN j = 0 /\ loose[id] > 0
    ELSE k \in 1..Len(cards) /\ cards[k].id = id /\ j \in 1..Len(cards[k].reqs)

\* the failure branch restoring the label and leaving the button disabled
restoreButton_labelOnly(cs, k, label) ==
    IF k = 0 THEN cs
    ELSE [cs EXCEPT ![k] = [@ EXCEPT !.lab = label]]

\* the button of request (k, j) back to its interactive state
restoreButton(cs, k, label) ==
    IF k = 0 THEN cs
    ELSE [cs EXCEPT ![k] = [@ EXCEPT !.dis = FALSE, !.lab = label]]

\* window.acceptOrder taking every parsed response for a success
acceptOutcome_optimistic(cs, k, id, success) ==
    removeOrderCard(cs, id)

\* the two branches of the .then(data => ...) of window.acceptOrder
acceptOutcome(cs, k, id, success) ==
    IF success THEN removeOrderCard(cs, id) ELSE restoreButton(cs, k, "Accept")

\* the .then(data => ...) of window.acceptOrder
AO_acceptResponse(k, j, id, success) ==
    /\ page = "AO" /\ Alive
    /\ IsRequest(k, j, id)
    /\ success => TotalTimers < MaxTimers
    /\ LET done == TakeRequest(cards, loose, k, j, id)
       IN  /\ loose' = done[2]
           /\ cards' = acceptOutcome(done[1], k, id, success)
    /\ nav' = IF success THEN "scheduled" ELSE nav
    /\ last' = EvOf(IF success THEN "acceptOk" ELSE "acceptRejected", id, k, <<>>)
    /\ UNCHANGED others
    /\ UNCHANGED <<page, orphans, orphansR, containerVisible, noOrdersVisible,
                   loadingVisible, fetches, removedIds>>

\* the .catch of window.acceptOrder
AO_acceptError(k, j, id) ==
    /\ page = "AO" /\ Alive
    /\ IsRequest(k, j, id)
    /\ LET done == TakeRequest(cards, loose, k, j, id)
       IN  /\ loose' = done[2]
           /\ cards' = restoreButton(done[1], k, "Accept")
    /\ last' = EvOf("acceptError", id, k, <<>>)
    /\ UNCHANGED others
    /\ UNCHANGED <<page, orphans, orphansR, containerVisible, noOrdersVisible,
                   loadingVisible, fetches, nav, removedIds>>

\* setTimeout(() => window.location.reload(), 1000): the page is left
AO_reloadTimer ==
    /\ page = "AO"
    /\ nav = "scheduled"
    /\ nav' = "gone"
    /\ last' = Ev("reload", 0)
    /\ UNCHANGED others
    /\ UNCHANGED <<page, cards, orphans, orphansR, loose, containerVisible,
                   noOrdersVisible, loadingVisible, fetches, removedIds>>

\* ---- rider_dashboard.js ------------------------------------------------
\* the cards the server rendered into the page: one per order
RECURSIVE Distinct(_)
Distinct(L) ==
    \/ L = <<>>
    \/ /\ ~\E i \in 2..Len(L) : L[i].id = Head(L).id
       /\ Distinct(Tail(L))

InitialCards ==
    {[i \in 1..Len(L) |-> NewCard(L[i])] :
        L \in {M \in OrderLists : Distinct(M) /\ \A i \in 1..Len(M) : M[i].ver = "a"}}

\* updateExistingOrder(existingOrder, order): no script defines a function of
\* this name, the call throws a ReferenceError and the handler ends there
updateExistingOrder(cs, order) == cs

\* addOrderToAvailableOrders, on the container children
addOrderToAvailableOrders(cs, order) ==
    IF HasId(cs, order.id) THEN updateExistingOrder(cs, order)
    ELSE <<NewCard(order)>> \o cs

\* the data.success branch of acceptOrder's .then: opacity 0 and a 500 ms timer
\* on the first card of the order, if there is one
fadeOrderCard(cs, id, redirect) ==
    IF ~HasId(cs, id) THEN cs
    ELSE IF redirect THEN [cs EXCEPT ![FirstIdx(cs, id)].armR = @ + 1]
    ELSE [cs EXCEPT ![FirstIdx(cs, id)].arm = @ + 1]

RD_Init ==
    /\ cards \in InitialCards
    /\ orphans = 0
    /\ orphansR = 0
    /\ loose = NoLoose
    /\ containerVisible = TRUE
    /\ noOrdersVisible = (cards = <<>>)
    /\ loadingVisible = FALSE
    /\ fetches = NoFetches
    /\ nav = "none"
    /\ removedIds = {}
    /\ last = Ev("init", 0)

\* the new_order_confirmed and new_delivery_available handlers, data.order present
RD_addOrderToAvailableOrders(order) ==
    /\ page = "RD" /\ Alive
    /\ noOrdersVisible' = FALSE
    /\ cards' = addOrderToAvailableOrders(cards, order)
    /\ last' = Ev(IF HasId(cards, order.id) THEN "addDup" ELSE "add", order.id)
    /\ UNCHANGED others
    /\ UNCHANGED <<page, orphans, orphansR, loose, containerVisible, loadingVisible,
                   fetches, nav, removedIds>>

\* the click listener of a card's accept button, and acceptOrder up to the fetch,
\* confirm() answered yes, data-rider-id present: no control is disabled and
\* nothing is recorded on the card
RD_acceptOrder(id) ==
    /\ page = "RD" /\ Alive
    /\ TotalPending < MaxPending
    /\ HasId(cards, id)
    /\ loose' = [loose EXCEPT ![id] = @ + 1]
    /\ last' = Ev("accept", id)
    /\ UNCHANGED others
    /\ UNCHANGED <<page, cards, orphans, orphansR, containerVisible, noOrdersVisible,
                   loadingVisible, fetches, nav, removedIds>>

\* the .then(data => ...) of acceptOrder, response.ok
RD_acceptResponse(id, success, redirect) ==
    /\ page = "RD" /\ Alive
    /\ loose[id] > 0
    /\ success => TotalTimers < MaxTimers
    /\ loose' = [loose EXCEPT ![id] = @ - 1]
    /\ cards' = IF success THEN fadeOrderCard(cards, id, redirect) ELSE cards
    /\ last' = Ev(IF success THEN "acceptOk" ELSE "acceptRejected", id)
    /\ UNCHANGED others
    /\ UNCHANGED <<page, orphans, orphansR, containerVisible, noOrdersVisible,
                   loadingVisible, fetches, nav, removedIds>>

\* the .catch of acceptOrder: network error, or a response that is not ok
RD_acceptError(id) ==
    /\ page = "RD" /\ Alive
    /\ loose[id] > 0
    /\ loose' = [loose EXCEPT ![id] = @ - 1]
    /\ last' = Ev("acceptError", id)
    /\ UNCHANGED others
    /\ UNCHANGED <<page, cards, orphans, orphansR, containerVisible, noOrdersVisible,
                   loadingVisible, fetches, nav, removedIds>>

\* the 500 ms setTimeout callback of acceptOrder; k is the position of the captured
\* card (0: detached), r says whether its response carried a redirect_url
RD_removeTimer(k, r) ==
    /\ page = "RD" /\ Alive
    /\ IF k = 0
       THEN /\ IF r THEN orphansR > 0 ELSE orphans > 0
            /\ orphansR' = IF r THEN orphansR - 1 ELSE orphansR
            /\ orphans' = IF r THEN orphans ELSE orphans - 1
            /\ UNCHANGED <<cards, loose>>
       ELSE /\ k \in 1..Len(cards)
            /\ IF r THEN cards[k].armR > 0 ELSE cards[k].arm > 0
            /\ cards' = RemoveAt(cards, k)
            /\ orphansR' = orphansR + cards[k].armR - (IF r THEN 1 ELSE 0)
            /\ orphans' = orphans + cards[k].arm - (IF r THEN 0 ELSE 1)
            /\ loose' = Detach(loose, <<cards[k]>>)
    /\ noOrdersVisible' = IF Len(cards') = 1 THEN TRUE ELSE noOrdersVisible
    /\ nav' = IF r THEN "scheduled" ELSE nav
    /\ last' = Ev("removeTimer", IF k = 0 THEN 0 ELSE cards[k].id)
    /\ UNCHANGED others
    /\ UNCHANGED <<page, containerVisible, loadingVisible, fetches, removedIds>>

\* setTimeout(() => window.location.href = data.redirect_url, 1500)
RD_redirectTimer ==
    /\ page = "RD"
    /\ nav = "scheduled"
    /\ nav' = "gone"
    /\ last' = Ev("redirect", 0)
    /\ UNCHANGED others
    /\ UNCHANGED <<page, cards, orphans, orphansR, loose, containerVisible,
                   noOrdersVisible, loadingVisible, fetches, removedIds>>

\* ---- class RiderWebSocket ----------------------------------------------
\* updateOrdersList, on the children of available-orders-list
updateOrdersList(cs, orders) == [i \in 1..Len(orders) |-> NewCard(orders[i])]

\* removeOrderFromList
removeOrderFromList(cs, id) ==
    IF HasId(cs, id) THEN RemoveAt(cs, FirstIdx(cs, id)) ELSE cs

RW_Init ==
    /\ cards \in InitialCards
    /\ orphans = 0
    /\ orphansR = 0
    /\ loose = NoLoose
    /\ containerVisible = TRUE
    /\ noOrdersVisible = FALSE
    /\ loadingVisible = FALSE
    /\ fetches = NoFetches
    /\ nav = "none"
    /\ removedIds = {}
    /\ last = Ev("init", 0)

\* the new_delivery_available handler; amountOk: data.total_amount is a number,
\* otherwise showNewOrderNotification throws before the refresh is asked for
RW_newDeliveryAvailable(amountOk) ==
    /\ page = "RW" /\ Alive
    /\ amountOk => TotalFetches < MaxFetches
    /\ fetches' = IF amountOk THEN [fetches EXCEPT ![{}] = @ + 1] ELSE fetches
    /\ last' = Ev(IF amountOk THEN "newDelivery" ELSE "newDeliveryThrew", 0)
    /\ UNCHANGED others
    /\ UNCHANGED <<page, cards, orphans, orphansR, loose, containerVisible,
                   noOrdersVisible, loadingVisible, nav, removedIds>>

\* the visibilitychange listener, page visible: refreshAvailableOrders up to the fetch
RW_refreshAvailableOrders ==
    /\ page = "RW" /\ Alive
    /\ TotalFetches < MaxFetches
    /\ fetches' = [fetches EXCEPT ![{}] = @ + 1]
    /\ last' = Ev("load", 0)
    /\ UNCHANGED others
    /\ UNCHANGED <<page, cards, orphans, orphansR, loose, containerVisible,
                   noOrdersVisible, loadingVisible, nav, removedIds>>

\* refreshAvailableOrders after the fetch: ok is response.ok
RW_refreshResponse(m, ok, orders) ==
    /\ page = "RW" /\ Alive
    /\ fetches[m] > 0
    /\ fetches' = [fetches EXCEPT ![m] = @ - 1]
    /\ cards' = IF ok THEN updateOrdersList(cards, orders) ELSE cards
    /\ loose' = IF ok THEN Detach(loose, cards) ELSE loose
    /\ noOrdersVisible' = IF ok THEN orders = <<>> ELSE noOrdersVisible
    /\ removedIds' = IF ok THEN {} ELSE removedIds
    /\ last' = EvOf(IF ok THEN "snapshot" ELSE "snapshotRejected", 0, 0, orders)
    /\ UNCHANGED others
    /\ UNCHANGED <<page, orphans, orphansR, containerVisible, loadingVisible, nav>>

\* the catch of refreshAvailableOrders: the fetch or response.json() rejects
RW_refreshError(m) ==
    /\ page = "RW" /\ Alive
    /\ fetches[m] > 0
    /\ fetches' = [fetches EXCEPT ![m] = @ - 1]
    /\ last' = Ev("snapshotError", 0)
    /\ UNCHANGED others
    /\ UNCHANGED <<page, cards, orphans, orphansR, loose, containerVisible,
                   noOrdersVisible, loadingVisible, nav, removedIds>>

\* the order_taken handler, data.order_id present
RW_orderTaken(id) ==
    /\ page = "RW" /\ Alive
    /\ cards' = removeOrderFromList(cards, id)
    /\ loose' = IF HasId(cards, id)
                THEN Detach(loose, <<cards[FirstIdx(cards, id)]>>)
                ELSE loose
    /\ removedIds' = removedIds \cup {id}
    /\ fetches' = Miss(fetches, id)
    /\ last' = Ev("taken", id)
    /\ UNCHANGED others
    /\ UNCHANGED <<page, orphans, orphansR, containerVisible, noOrdersVisible,
                   loadingVisible, nav>>

\* the document click listener on the accept button of card k, and acceptOrder
\* up to the fetch (a disabled button dispatches no click)
RW_acceptOrder(k) ==
    /\ page = "RW" /\ Alive
    /\ TotalPending < MaxPending
    /\ k \in 1..Len(cards)
    /\ ~cards[k].dis
    /\ cards' = [cards EXCEPT ![k] =
                    [@ EXCEPT !.dis = TRUE, !.lab = "Accepting",
                              !.reqs = Append(@, cards[k].lab)]]
    /\ last' = Ev("accept", cards[k].id)
    /\ UNCHANGED others
    /\ UNCHANGED <<page, orphans, orphansR, loose, containerVisible, noOrdersVisible,
                   loadingVisible, fetches, nav, removedIds>>

\* acceptOrder after the fetch, the body parsed: data.success, data.redirect
RW_acceptResponse(k, j, id, success, redirect) ==
    /\ page = "RW" /\ Alive
    /\ IsRequest(k, j, id)
    /\ LET done == TakeRequest(cards, loose, k, j, id)
       IN  /\ loose' = done[2]
           /\ cards' = IF success
                       THEN done[1]
                       ELSE restoreButton(done[1], k, IF k = 0 THEN "Accept" ELSE cards[k].reqs[j])
    /\ nav' = IF success /\ redirect THEN "gone" ELSE nav
    /\ last' = EvOf(IF success THEN "acceptOk" ELSE "acceptRejected", id, k, <<>>)
    /\ UNCHANGED others
    /\ UNCHANGED <<page, orphans, orphansR, containerVisible, noOrdersVisible,
                   loadingVisible, fetches, removedIds>>

\* the catch of acceptOrder: the fetch or response.json() rejects
RW_acceptError(k, j, id) ==
    /\ page = "RW" /\ Alive
    /\ IsRequest(k, j, id)
    /\ LET done == TakeRequest(cards, loose, k, j, id)
       IN  /\ loose' = done[2]
           /\ cards' = restoreButton(done[1], k, IF k = 0 THEN "Accept" ELSE cards[k].reqs[j])
    /\ last' = EvOf("acceptError", id, k, <<>>)
    /\ UNCHANGED others
    /\ UNCHANGED <<page, orphans, orphansR, containerVisible, noOrdersVisible,
                   loadingVisible, fetches, nav, removedIds>>

\* ---- the page ------------------------------------------------------------
Init ==
    /\ IdlePull /\ IdleConn /\ IdleSeller /\ DomPresent
    /\ \/ page = "AO" /\ AO_Init
       \/ page = "RD" /\ RD_Init
       \/ page = "RW" /\ RW_Init

Next ==
    \/ AO_loadAvailableOrders
    \/ \E m \in SUBSET Ids, L \in OrderLists : AO_snapshotResponse(m, TRUE, L)
    \/ \E m \in SUBSET Ids : AO_snapshotResponse(m, FALSE, <<>>)
    \/ \E m \in SUBSET Ids : AO_snapshotError(m)
    \/ \E o \in Order : AO_handleNewOrder(o)
    \/ \E id \in Ids : AO_handleOrderTaken(id)
    \/ \E id \in Ids, other \in BOOLEAN : AO_handleOrderAccepted(id, other)
    \/ \E k \in 0..MaxCards : AO_fadeTimer(k)
    \/ \E id \in Ids, viaCard \in BOOLEAN : AO_acceptOrder(id, viaCard)
    \/ \E k \in 0..MaxCards, j \in 0..MaxPending, id \in Ids, s \in BOOLEAN :
           AO_acceptResponse(k, j, id, s)
    \/ \E k \in 0..MaxCards, j \in 0..MaxPending, id \in Ids : AO_acceptError(k, j, id)
    \/ AO_reloadTimer
    \/ \E o \in Order : RD_addOrderToAvailableOrders(o)
    \/ \E id \in Ids : RD_acceptOrder(id)
    \/ \E id \in Ids, s \in BOOLEAN, r \in BOOLEAN : RD_acceptResponse(id, s, r)
    \/ \E id \in Ids : RD_acceptError(id)
    \/ \E k \in 0..MaxCards, r \in BOOLEAN : RD_removeTimer(k, r)
    \/ RD_redirectTimer
    \/ \E ok \in BOOLEAN : RW_newDeliveryAvailable(ok)
    \/ RW_refreshAvailableOrders
    \/ \E m \in SUBSET Ids, L \in OrderLists : RW_refreshResponse(m, TRUE, L)
    \/ \E m \in SUBSET Ids : RW_refreshResponse(m, FALSE, <<>>)
    \/ \E m \in SUBSET Ids : RW_refreshError(m)
    \/ \E id \in Ids : RW_orderTaken(id)
    \/ \E k \in 1..MaxCards : RW_acceptOrder(k)
    \/ \E k \in 0..MaxCards, j \in 0..MaxPending, id \in Ids, s \in BOOLEAN, r \in BOOLEAN :
           RW_acceptResponse(k, j, id, s, r)
    \/ \E k \in 0..MaxCards, j \in 0..MaxPending, id \in Ids : RW_acceptError(k, j, id)

Spec == Init /\ [][Next]_vars

\* ---- properties ----------------------------------------------------------
Fading(c) == c.arm + c.armR > 0

Arms(cs) == [i \in 1..Len(cs) |-> cs[i].arm + cs[i].armR]

\* C1: in rider_available_orders.js an order id that a push removed (order_taken,
\* or order_accepted naming another rider) has no card that is not fading out
\* until the next snapshot is applied: a later push add of the id is a no-op
RemoveWinsOverAdd ==
    page = "AO" =>
        \A id \in removedIds : ~\E i \in 1..Len(cards) : cards[i].id = id /\ ~Fading(cards[i])

\* C2: in rider_available_orders.js the response of a snapshot fetch that was in
\* flight when a push removed id does not put a card of id back
RemoveWinsOverStaleSnapshot ==
    [][(page = "AO" /\ last'.op = "snapshot") =>
          \A m \in SUBSET Ids :
              AO_snapshotResponse(m, TRUE, last'.list) => \A id \in m : ~HasId(cards', id)]_vars

\* C3: on every rider page the container holds at most one card per order id
DedupInvariant == \A id \in Ids : Count(cards, id) <= 1

OneAcceptInFlight == \A id \in Ids : PendingFor(id) <= 1

\* C6: after a successful snapshot response with list L the container children are
\* exactly the orders of L, in the order of L
SnapshotIsExactlyList ==
    last.op = "snapshot" => CardOrders(cards) = last.list

\* what loadAvailableOrders shows of a response applied to the children cs
AO_shown(cs, orders) ==
    IF snapshotShown(TRUE, orders) THEN snapshotCards(cs, TRUE, orders) ELSE <<>>

\* C7: the cards displayed after a successful snapshot response with list L are
\* those the same response yields on an empty page, whatever was displayed
\* before, and applying the same response once more yields them again
SnapshotIsDetermined ==
    last.op = "snapshot" =>
        IF page = "AO"
        THEN /\ Displayed = AO_shown(<<>>, last.list)
             /\ AO_shown(cards, last.list) = Displayed
        ELSE /\ Displayed = updateOrdersList(<<>>, last.list)
             /\ updateOrdersList(cards, last.list) = Displayed

SnapshotIsDeterminedWitness ==
    /\ page = "AO"
    /\ last.op = "snapshot"
    /\ Len(Displayed) = 2
    /\ TotalPending > 0

\* C8: sending an accept request, and a failed or rejected accept request, remove
\* no card and start no removal; a success response for id starts the removal of
\* cards of id only, and removes none itself
AcceptWaitsForSuccess ==
    [][/\ last'.op \in {"accept", "acceptRejected", "acceptError"} =>
              /\ CardOrders(cards') = CardOrders(cards)
              /\ Arms(cards') = Arms(cards)
       /\ last'.op = "acceptOk" =>
              /\ CardOrders(cards') = CardOrders(cards)
              /\ \A i \in 1..Len(cards) :
                     cards[i].id # last'.id => Arms(cards')[i] = Arms(cards)[i]]_vars

AcceptWaitsForSuccessWitness ==
    /\ page = "AO"
    /\ last.op = "acceptRejected"
    /\ \E i \in 1..Len(cards) : cards[i].id = last.id /\ ~Fading(cards[i])

AcceptSuccessRemoves ==
    (Alive /\ last.op = "acceptOk") =>
        \A i \in 1..Len(cards) : cards[i].id = last.id => Fading(cards[i])

\* the cards of cs that are not cards of id
Without(cs, id) == SelectSeq(cs, LAMBDA c : c.id # id)

\* C13: handling order_taken for id removes exactly the cards of id and leaves the
\* other cards in place: at once in RiderWebSocket, when the 300 ms timer of the
\* faded card fires in rider_available_orders.js (where the handler itself only
\* fades); a remove for an id with no card changes nothing
PushRemoveRemovesExactly ==
    [][/\ (page = "RW" /\ last'.op = "taken") => cards' = Without(cards, last'.id)
       /\ (page = "AO" /\ last'.op = "taken") => CardOrders(cards') = CardOrders(cards)
       /\ (page = "AO" /\ last'.op = "fadeTimer" /\ last'.id # 0) =>
              cards' = Without(cards, last'.id)]_vars

\* C14: after a snapshot is applied, the accept button of every displayed order
\* that has an accept request in flight is disabled
SnapshotKeepsPendingDisabled ==
    last.op = "snapshot" =>
        \A i \in 1..Len(cards) : PendingFor(cards[i].id) > 0 => cards[i].dis

\* C19: in rider_dashboard.js every success response to an accept request arms the
\* timer that shows the confirmation notification and schedules the redirect,
\* also when the order has no card in the page any more
AcceptSuccessSideEffects ==
    (page = "RD" /\ last.op = "acceptOk") =>
        \E i \in 1..Len(cards) : cards[i].id = last.id /\ Fading(cards[i])

\* ---- rider_available_orders.js: polling with no push event ----------------
MaxPullFetches == 2     \* snapshot fetches in flight while polling

\* what the server lists: each available order once
ServerLists == {L \in OrderLists : Distinct(L) /\ \A i \in 1..Len(L) : L[i].ver = "a"}

\* a fetch the server has not answered yet, and one it answered with list L
Sent == [answered |-> FALSE, list |-> <<>>]

Answered(L) == [answered |-> TRUE, list |-> L]

\* DOMContentLoaded: the first loadAvailableOrders is on its way
Pull_Init ==
    /\ page = "AO"
    /\ AO_Init
    /\ server = <<>>
    /\ served = <<Sent>>
    /\ IdleConn /\ IdleSeller /\ DomPresent

\* an order becomes available or is taken at the server
Pull_serverChange(L) ==
    /\ L # server
    /\ server' = L
    /\ UNCHANGED <<page, cards, orphans, orphansR, loose, containerVisible,
                   noOrdersVisible, loadingVisible, fetches, nav, removedIds, last,
                   served, connVars, sellerVars, domVars>>

\* loadAvailableOrders up to the fetch; manual: the refresh or retry button,
\* otherwise the callback of setInterval(loadAvailableOrders, 60000); `last`
\* keeps the orders that were displayed when the fetch was issued
Pull_loadAvailableOrders(manual) ==
    /\ Len(served) < MaxPullFetches
    /\ loadingVisible' = TRUE
    /\ noOrdersVisible' = FALSE
    /\ containerVisible' = FALSE
    /\ fetches' = [fetches EXCEPT ![{}] = @ + 1]
    /\ served' = Append(served, Sent)
    /\ last' = EvOf(IF manual THEN "refresh" ELSE "load", 0, 0, CardOrders(Displayed))
    /\ UNCHANGED <<page, cards, orphans, orphansR, loose, nav, removedIds,
                   server, connVars, sellerVars, domVars>>

\* the server answers fetch i with its list of that moment
Pull_serve(i) ==
    /\ i \in 1..Len(served)
    /\ ~served[i].answered
    /\ served' = [served EXCEPT ![i] = Answered(server)]
    /\ UNCHANGED <<page, cards, orphans, orphansR, loose, containerVisible,
                   noOrdersVisible, loadingVisible, fetches, nav, removedIds, last,
                   server, connVars, sellerVars, domVars>>

\* the snapshot just applied is the one applied right before it
SameAsLast(orders) == last.op \in {"snapshot", "snapshotAgain"} /\ last.list = orders

\* the .then(data => ...) of loadAvailableOrders for fetch i; success is data.success
Pull_snapshotResponse(i, success) ==
    /\ i \in 1..Len(served)
    /\ served[i].answered
    /\ LET orders == IF success THEN served[i].list ELSE <<>>
       IN  /\ cards' = snapshotCards(cards, success, orders)
           /\ containerVisible' = snapshotShown(success, orders)
           /\ noOrdersVisible' = ~snapshotShown(success, orders)
           /\ last' = EvOf(IF ~success THEN "snapshotRejected"
                           ELSE IF SameAsLast(orders) THEN "snapshotAgain"
                           ELSE "snapshot", 0, 0, orders)
    /\ loadingVisible' = FALSE
    /\ fetches' = [fetches EXCEPT ![{}] = @ - 1]
    /\ served' = RemoveAt(served, i)
    /\ UNCHANGED <<page, orphans, orphansR, loose, nav, removedIds,
                   server, connVars, sellerVars, domVars>>

\* the .catch of loadAvailableOrders for fetch i
Pull_snapshotError(i) ==
    /\ i \in 1..Len(served)
    /\ loadingVisible' = FALSE
    /\ fetches' = [fetches EXCEPT ![{}] = @ - 1]
    /\ served' = RemoveAt(served, i)
    /\ last' = Ev("snapshotError", 0)
    /\ UNCHANGED <<page, cards, orphans, orphansR, loose, containerVisible,
                   noOrdersVisible, nav, removedIds,
                   server, connVars, sellerVars, domVars>>

Pull_Next ==
    \/ \E L \in ServerLists : Pull_serverChange(L)
    \/ Pull_loadAvailableOrders(FALSE)
    \/ Pull_loadAvailableOrders(TRUE)
    \/ \E i \in 1..MaxPullFetches : Pull_serve(i)
    \/ \E i \in 1..MaxPullFetches : Pull_snapshotResponse(i, TRUE)
    \/ \E i \in 1..MaxPullFetches : Pull_snapshotResponse(i, FALSE)
    \/ \E i \in 1..MaxPullFetches : Pull_snapshotError(i)

\* the interval timer keeps firing; fetches may fail at any time, but of the
\* fetches that keep being issued some reach the server, and of the answers that
\* keep coming back some are applied as successes
SpecPull ==
    /\ Pull_Init
    /\ [][Pull_Next]_vars
    /\ WF_vars(Pull_loadAvailableOrders(FALSE))
    /\ SF_vars(\E i \in 1..MaxPullFetches : Pull_serve(i))
    /\ SF_vars(\E i \in 1..MaxPullFetches : Pull_snapshotResponse(i, TRUE))

\* the page shows exactly the orders of list S, each on a fresh card
ShowsServer(S) ==
    /\ ~loadingVisible
    /\ Len(Displayed) = Len(S)
    /\ {Displayed[i] : i \in 1..Len(Displayed)} = {NewCard(S[i]) : i \in 1..Len(S)}
    /\ noOrdersVisible = (S = <<>>)

\* C11: with no push event at all, whatever list the server settles on is shown
\* by the polling page again and again
PullEventuallyShows ==
    \A S \in ServerLists : <>[](server = S) => []<>ShowsServer(S)

PullEventuallyShowsWitness ==
    /\ page = "AO"
    /\ last.op = "snapshot"
    /\ Len(server) = 2
    /\ ShowsServer(server)

\* C20: a snapshot response applied right after one with the same list, both
\* fetches having been in flight together, leaves the displayed cards as they are,
\* one card per order
SupersededFetchAbsorbed ==
    [][last'.op = "snapshotAgain" =>
          /\ Displayed' = Displayed
          /\ cards' = cards
          /\ \A id \in Ids : Count(cards', id) <= 1]_vars

SupersededFetchAbsorbedWitness ==
    /\ page = "AO"
    /\ last.op = "snapshotAgain"
    /\ Len(Displayed) = 2
    /\ served = <<>>

\* C21: a snapshot fetch that fails leaves displayed the orders that were
\* displayed when it was issued (the fetch is the only one in flight and nothing
\* else happened on the page in between)
FailedFetchKeepsDisplay ==
    [][(last.op \in {"load", "refresh"} /\ Len(served) = 1 /\ last'.op = "snapshotError") =>
          CardOrders(Displayed') = last.list]_vars

\* ---- the push connection of the rider scripts -----------------------------
\* The socket.io client is not part of the scripts.  What the model takes from
\* it: a socket that cannot connect retries up to reconnectionAttempts times and
\* then gives up; every establishment delivers 'connect'; a failed attempt
\* delivers 'connect_error'; a lost connection delivers 'disconnect' and, unless
\* the server closed it, starts reconnecting; a 2.x client (`legacy`) delivers
\* 'reconnect' on the socket when the transport is open again, before 'connect'.
\* `last` keeps recording the handlers of the order list only.
MaxStale == 1           \* RD: earlier sockets alive beside the current one

\* io({reconnectionAttempts: ...})
reconnectionAttempts(p) == IF p = "AO" THEN 10 ELSE 5

\* socket = io({...}): a socket on its first attempt
NewSocket(p) == [st |-> "connecting", left |-> reconnectionAttempts(p), sent |-> <<>>]

\* the emits of the 'connect' handler
Announce(p) ==
    IF p = "AO"
    THEN <<"join rider", "join available_orders", "rider_online">>
    ELSE <<"rider_online", "join_riders_room">>

\* the emits of the 'reconnect' handler
Rejoin(p) == IF p = "AO" THEN <<>> ELSE <<"rider_online", "join_riders_room">>

Live(s) == s.st \in {"connecting", "reconnecting", "opened", "connected"}

\* socket 0 is the one the script's variable refers to, socket i > 0 is stale[i]
Sock(i) == IF i = 0 THEN socket ELSE stale[i]

IsSock(i) == i = 0 \/ i \in 1..Len(stale)

\* the sockets after socket i became s; a stale socket that is closed is dropped
SocketAfter(i, s) == IF i = 0 THEN s ELSE socket

StaleAfter(i, s) ==
    IF i = 0 THEN stale
    ELSE IF Live(s) THEN [stale EXCEPT ![i] = s]
    ELSE RemoveAt(stale, i)

\* a failed attempt: retry while attempts are left, then give up
Failed(s) ==
    IF s.left > 0
    THEN [s EXCEPT !.st = "reconnecting", !.left = @ - 1]
    ELSE [s EXCEPT !.st = "closed"]

\* socket.connect() on the current socket
Reopened(p, s) ==
    IF s.st = "closed" THEN [NewSocket(p) EXCEPT !.sent = <<>>] ELSE s

\* the page load ran initializeWebSocket / initWebSocket, io is defined
Conn_Init ==
    /\ page \in {"AO", "RD", "RW"}
    /\ \/ page = "AO" /\ AO_Init
       \/ page = "RD" /\ RD_Init /\ cards = <<>>
       \/ page = "RW" /\ RW_Init /\ cards = <<>>
    /\ legacy \in BOOLEAN
    /\ up \in BOOLEAN
    /\ socket = NewSocket(page)
    /\ stale = <<>>
    /\ isConnected = FALSE
    /\ IdlePull /\ IdleSeller /\ DomPresent

\* the server becomes unreachable, or reachable again
Conn_netChange ==
    /\ up' = ~up
    /\ UNCHANGED <<page, cards, orphans, orphansR, loose, containerVisible,
                   noOrdersVisible, loadingVisible, fetches, nav, removedIds, last,
                   legacy, socket, stale, isConnected, pullVars, sellerVars, domVars>>

\* the 'connect' handler of socket i
Conn_connect(i) ==
    /\ IsSock(i) /\ up
    /\ \/ Sock(i).st \in {"connecting", "opened"}
       \/ Sock(i).st = "reconnecting" /\ ~legacy
    /\ LET s == [Sock(i) EXCEPT !.st = "connected",
                                !.left = reconnectionAttempts(page),
                                !.sent = @ \o Announce(page)]
       IN  socket' = SocketAfter(i, s) /\ stale' = StaleAfter(i, s)
    /\ isConnected' = IF page = "RD" THEN TRUE ELSE isConnected
    /\ UNCHANGED <<page, cards, orphans, orphansR, loose, containerVisible,
                   noOrdersVisible, loadingVisible, fetches, nav, removedIds, last,
                   legacy, up, pullVars, sellerVars, domVars>>

\* a 'reconnect' handler that only logs
reloadsOnReconnect_never(p) == FALSE

\* the 'reconnect' handler calls loadAvailableOrders
reloadsOnReconnect(p) == p = "AO"

\* the 'reconnect' handler of socket i
Conn_reconnect(i) ==
    /\ IsSock(i) /\ up /\ legacy
    /\ Sock(i).st = "reconnecting"
    /\ LET s == [Sock(i) EXCEPT !.st = "opened", !.sent = @ \o Rejoin(page)]
       IN  socket' = SocketAfter(i, s) /\ stale' = StaleAfter(i, s)
    /\ isConnected' = IF page = "RD" THEN TRUE ELSE isConnected
    /\ page = "AO" => TotalFetches < MaxFetches
    /\ IF reloadsOnReconnect(page)
       THEN /\ loadingVisible' = TRUE
            /\ noOrdersVisible' = FALSE
            /\ containerVisible' = FALSE
            /\ fetches' = [fetches EXCEPT ![{}] = @ + 1]
            /\ last' = Ev("load", 0)
       ELSE UNCHANGED <<loadingVisible, noOrdersVisible, containerVisible, fetches, last>>
    /\ UNCHANGED <<page, cards, orphans, orphansR, loose, nav, removedIds,
                   legacy, up, pullVars, sellerVars, domVars>>

\* the 'connect_error' handler of socket i
Conn_connectError(i) ==
    /\ IsSock(i) /\ ~up
    /\ Sock(i).st \in {"connecting", "reconnecting"}
    /\ socket' = SocketAfter(i, Failed(Sock(i)))
    /\ stale' = StaleAfter(i, Failed(Sock(i)))
    /\ isConnected' = IF page = "RD" THEN FALSE ELSE isConnected
    /\ UNCHANGED <<page, cards, orphans, orphansR, loose, containerVisible,
                   noOrdersVisible, loadingVisible, fetches, nav, removedIds, last,
                   legacy, up, pullVars, sellerVars, domVars>>

\* the 'disconnect' handler of socket i; byServer: reason 'io server disconnect',
\* after which the client does not reconnect by itself and rider_dashboard.js
\* calls socket.connect() on the current socket
Conn_disconnect(i, byServer) ==
    /\ IsSock(i)
    /\ Sock(i).st \in {"opened", "connected"}
    /\ LET s == IF byServer
                THEN [Sock(i) EXCEPT !.st = "closed", !.sent = <<>>]
                ELSE [Sock(i) EXCEPT !.st = "reconnecting", !.sent = <<>>,
                                     !.left = reconnectionAttempts(page)]
           cur == SocketAfter(i, s)
       IN  /\ socket' = IF byServer /\ page = "RD" THEN Reopened(page, cur) ELSE cur
           /\ stale' = StaleAfter(i, s)
    /\ isConnected' = IF page = "RD" THEN FALSE ELSE isConnected
    /\ UNCHANGED <<page, cards, orphans, orphansR, loose, containerVisible,
                   noOrdersVisible, loadingVisible, fetches, nav, removedIds, last,
                   legacy, up, pullVars, sellerVars, domVars>>

\* initWebSocket started by a poll that never looks at isConnected again
shouldInit_once(sock, isConn) == sock.st = "none"

\* initWebSocket: if (!socket || !isConnected)
shouldInit(sock, isConn) == sock.st = "none" \/ ~isConn

\* rider_dashboard.js: the 10 s setInterval callback finding isConnected false;
\* initWebSocket assigns a new socket and leaves the old one as it is
Conn_poll ==
    /\ page = "RD"
    /\ ~isConnected
    /\ shouldInit(socket, isConnected)
    /\ Live(socket) => Len(stale) < MaxStale
    /\ stale' = IF Live(socket) THEN Append(stale, socket) ELSE stale
    /\ socket' = NewSocket(page)
    /\ UNCHANGED <<page, cards, orphans, orphansR, loose, containerVisible,
                   noOrdersVisible, loadingVisible, fetches, nav, removedIds, last,
                   legacy, up, isConnected, pullVars, sellerVars, domVars>>

Conn_Next ==
    \/ Conn_netChange
    \/ \E i \in 0..MaxStale : Conn_connect(i)
    \/ \E i \in 0..MaxStale : Conn_reconnect(i)
    \/ \E i \in 0..MaxStale : Conn_connectError(i)
    \/ \E i \in 0..MaxStale, byServer \in BOOLEAN : Conn_disconnect(i, byServer)
    \/ Conn_poll
    \/ \E L \in ServerLists : AO_snapshotResponse({}, TRUE, L)
    \/ AO_snapshotResponse({}, FALSE, <<>>)
    \/ AO_snapshotError({})

\* timers fire, and a socket that can connect does
SpecConn ==
    /\ Conn_Init
    /\ [][Conn_Next]_vars
    /\ WF_vars(Conn_poll)
    /\ \A i \in 0..MaxStale : WF_vars(Conn_connect(i))
    /\ \A i \in 0..MaxStale : WF_vars(Conn_reconnect(i))

\* every socket the page created has given up or was closed
GaveUp == ~Live(socket) /\ stale = <<>>

LiveSockets == (IF Live(socket) THEN 1 ELSE 0) + Len(stale)

\* C12: a socket that is connected has emitted, since its connection was
\* established, exactly what the first establishment emits, each message once
ResubscribesOnce ==
    \A i \in 0..MaxStale :
        (IsSock(i) /\ Sock(i).st = "connected") => Sock(i).sent = Announce(page)

\* C15: in rider_dashboard.js, once every socket has given up isConnected is
\* false, and if the server stays reachable from some time on, the page gets
\* back to isConnected after each giving up
RecoversAfterGivingUp ==
    /\ []((page = "RD" /\ GaveUp) => ~isConnected)
    /\ (<>[]up) => []((page = "RD" /\ GaveUp) => <>isConnected)

RecoversAfterGivingUpWitness ==
    /\ page = "RD"
    /\ GaveUp
    /\ socket.st = "closed"
    /\ socket.left = 0
    /\ ~isConnected
    /\ up

\* C16: rider_dashboard.js never has more than one live socket
OneSocketPerPage == page = "RD" => LiveSockets <= 1

\* ---- class SellerWebSocket: status updates of one order card --------------
MaxSellerReqs == 2      \* status updates in flight

Statuses == {"pending", "confirmed", "shipped", "out_for_delivery", "delivered", "cancelled"}

\* getStatusButtons with a 'Reopen' option for delivered orders
getStatusButtons_reopen(status) ==
    CASE status = "pending" -> {"confirmed", "cancelled"}
      [] status = "confirmed" -> {"shipped", "cancelled"}
      [] status = "shipped" -> {"delivered"}
      [] status = "out_for_delivery" -> {"delivered"}
      [] status = "delivered" -> {"pending"}
      [] OTHER -> {}

\* getStatusButtons: the data-status values of the buttons rendered for a status
getStatusButtons(status) ==
    CASE status = "pending" -> {"confirmed", "cancelled"}
      [] status = "confirmed" -> {"shipped", "cancelled"}
      [] status = "shipped" -> {"delivered"}
      [] status = "out_for_delivery" -> {"delivered"}
      [] OTHER -> {}

\* no order list on this page
IdleCards ==
    /\ cards = <<>>
    /\ orphans = 0
    /\ orphansR = 0
    /\ loose = NoLoose
    /\ containerVisible = FALSE
    /\ noOrdersVisible = FALSE
    /\ loadingVisible = FALSE
    /\ fetches = NoFetches
    /\ nav = "none"
    /\ removedIds = {}

Seller_Init ==
    /\ page = "SW"
    /\ IdleCards
    /\ last = Ev("init", 0)
    /\ sellerShown \in Statuses
    /\ sellerReqs = <<>>
    /\ sellerToast = "none"
    /\ IdleLoads
    /\ IdlePull /\ IdleConn /\ DomPresent

\* updateOrderStatusUI replaces the buttons of the card: the requests in flight
\* keep the buttons that were there
Detached(reqs) == [i \in 1..Len(reqs) |-> [reqs[i] EXCEPT !.attached = FALSE]]

\* the click listener on .update-status-btn and updateOrderStatus up to the fetch
\* (a disabled button dispatches no click)
Seller_updateOrderStatus(to) ==
    /\ page = "SW"
    /\ Len(sellerReqs) < MaxSellerReqs
    /\ to \in getStatusButtons(sellerShown)
    /\ ~\E i \in 1..Len(sellerReqs) : sellerReqs[i].attached /\ sellerReqs[i].to = to
    /\ sellerReqs' = Append(sellerReqs, [to |-> to, attached |-> TRUE])
    /\ last' = Ev("statusUpdate", 0)
    /\ UNCHANGED <<page, cards, orphans, orphansR, loose, containerVisible,
                   noOrdersVisible, loadingVisible, fetches, nav, removedIds,
                   sellerShown, sellerToast, pullVars, connVars, domVars, loadVars>>

\* updateOrderStatus after response.json(): the toast shown and the status the
\* card shows; ok is response.ok, success is data.success, and a body that
\* reports no success carries no data.status
statusOutcome(ok, success, to, shown) ==
    IF ~ok THEN <<"error", shown>>
    ELSE <<"success", IF success THEN to ELSE "undefined">>

\* updateOrderStatus for request j after the body was parsed, with its finally block
Seller_statusResponse(j, ok, success) ==
    /\ page = "SW"
    /\ j \in 1..Len(sellerReqs)
    /\ LET out == statusOutcome(ok, success, sellerReqs[j].to, sellerShown)
       IN  /\ sellerToast' = out[1]
           /\ sellerShown' = out[2]
           /\ sellerReqs' = IF out[1] = "success"
                            THEN Detached(RemoveAt(sellerReqs, j))
                            ELSE RemoveAt(sellerReqs, j)
    /\ last' = Ev(IF success THEN "statusOk" ELSE "statusRejected", 0)
    /\ UNCHANGED <<page, cards, orphans, orphansR, loose, containerVisible,
                   noOrdersVisible, loadingVisible, fetches, nav, removedIds,
                   pullVars, connVars, domVars, loadVars>>

\* updateOrderStatus for request j when the fetch or response.json() rejects
Seller_statusError(j) ==
    /\ page = "SW"
    /\ j \in 1..Len(sellerReqs)
    /\ sellerToast' = "error"
    /\ sellerReqs' = RemoveAt(sellerReqs, j)
    /\ last' = Ev("statusError", 0)
    /\ UNCHANGED <<page, cards, orphans, orphansR, loose, containerVisible,
                   noOrdersVisible, loadingVisible, fetches, nav, removedIds,
                   sellerShown, pullVars, connVars, domVars, loadVars>>

\* the order_status_updated handler
Seller_orderStatusUpdated(status) ==
    /\ page = "SW"
    /\ sellerShown' = status
    /\ sellerReqs' = Detached(sellerReqs)
    /\ last' = Ev("statusPushed", 0)
    /\ UNCHANGED <<page, cards, orphans, orphansR, loose, containerVisible,
                   noOrdersVisible, loadingVisible, fetches, nav, removedIds,
                   sellerToast, pullVars, connVars, domVars, loadVars>>

Seller_Next ==
    \/ \E to \in Statuses : Seller_updateOrderStatus(to)
    \/ \E j \in 1..MaxSellerReqs, ok \in BOOLEAN, success \in BOOLEAN :
           Seller_statusResponse(j, ok, success)
    \/ \E j \in 1..MaxSellerReqs : Seller_statusError(j)
    \/ \E status \in Statuses : Seller_orderStatusUpdated(status)

SpecSeller == Seller_Init /\ [][Seller_Next]_vars

\* C17: a status update answered with success:false, whatever the HTTP status,
\* ends like a network failure: the error toast, and badge and buttons as before
RejectionIsFailure ==
    [][(page = "SW" /\ last'.op = "statusRejected") =>
          (sellerToast' = "error" /\ sellerShown' = sellerShown)]_vars

\* ---- pages whose order container or card template may be absent -----------
\* hasContainer: getElementById('availableOrdersContainer') finds an element;
\* hasTemplate: getElementById('orderCardTemplate') finds one

\* addOrderCard behind its  if (!container || !template) return
addOrderCardIn(hasC, hasT, cs, order) ==
    IF ~hasC \/ ~hasT THEN cs ELSE addOrderCard(cs, order)

RECURSIVE addOrderCardsIn(_, _, _, _)
addOrderCardsIn(hasC, hasT, cs, orders) ==
    IF orders = <<>> THEN cs
    ELSE addOrderCardsIn(hasC, hasT, addOrderCardIn(hasC, hasT, cs, Head(orders)),
                         Tail(orders))

\* the container children after the .then of loadAvailableOrders, each use of
\* the container behind  if (container)
snapshotCardsIn(hasC, hasT, cs, success, orders) ==
    IF snapshotShown(success, orders)
    THEN addOrderCardsIn(hasC, hasT, IF hasC THEN <<>> ELSE cs, orders)
    ELSE cs

\* how addOrderToAvailableOrders ends: at the return of the missing container,
\* in the call of updateExistingOrder, at the return of the missing template,
\* or, the card inserted and the notification shown, in modal.show(), where no
\* binding of modal is in scope
addOutcome(hasC, hasT, cs, order) ==
    IF ~hasC THEN "addSkipped"
    ELSE IF HasId(cs, order.id) THEN "addThrew"
    ELSE IF ~hasT THEN "addSkipped"
    ELSE "addedThrew"

Dom_Init ==
    /\ page \in {"AO", "RD"}
    /\ hasContainer \in BOOLEAN
    /\ hasTemplate \in BOOLEAN
    /\ page = "AO" => AO_Init
    /\ page = "RD" => RD_Init /\ (~hasContainer => cards = <<>>)
    /\ IdlePull /\ IdleConn /\ IdleSeller

Dom_loadAvailableOrders ==
    /\ page = "AO"
    /\ TotalFetches < MaxFetches
    /\ loadingVisible' = TRUE
    /\ noOrdersVisible' = FALSE
    /\ containerVisible' = FALSE
    /\ fetches' = [fetches EXCEPT ![{}] = @ + 1]
    /\ last' = Ev("load", 0)
    /\ UNCHANGED <<page, cards, orphans, orphansR, loose, nav, removedIds, others>>

Dom_snapshotResponse(success, orders) ==
    /\ page = "AO"
    /\ fetches[{}] > 0
    /\ cards' = snapshotCardsIn(hasContainer, hasTemplate, cards, success, orders)
    /\ loadingVisible' = FALSE
    /\ containerVisible' = (snapshotShown(success, orders) /\ hasContainer)
    /\ noOrdersVisible' = ~snapshotShown(success, orders)
    /\ fetches' = [fetches EXCEPT ![{}] = @ - 1]
    /\ removedIds' = IF success THEN {} ELSE removedIds
    /\ last' = EvOf(IF success THEN "snapshot" ELSE "snapshotRejected", 0, 0, orders)
    /\ UNCHANGED <<page, orphans, orphansR, loose, nav, others>>

Dom_snapshotError ==
    /\ page = "AO"
    /\ fetches[{}] > 0
    /\ loadingVisible' = FALSE
    /\ fetches' = [fetches EXCEPT ![{}] = @ - 1]
    /\ last' = Ev("snapshotError", 0)
    /\ UNCHANGED <<page, cards, orphans, orphansR, loose, containerVisible,
                   noOrdersVisible, nav, removedIds, others>>

Dom_handleNewOrder(order) ==
    /\ page = "AO"
    /\ containerVisible' = hasContainer
    /\ noOrdersVisible' = FALSE
    /\ cards' = addOrderCardIn(hasContainer, hasTemplate, cards, order)
    /\ last' = EvToast(IF ~hasContainer \/ ~hasTemplate THEN "addSkipped"
                       ELSE IF HasId(cards, order.id) THEN "addDup" ELSE "add", order.id)
    /\ UNCHANGED <<page, orphans, orphansR, loose, loadingVisible, fetches, nav,
                   removedIds, others>>

Dom_addOrderToAvailableOrders(order) ==
    /\ page = "RD"
    /\ LET out == addOutcome(hasContainer, hasTemplate, cards, order)
       IN  /\ noOrdersVisible' = (noOrdersVisible /\ ~hasContainer)
           /\ cards' = IF out = "addedThrew" THEN <<NewCard(order)>> \o cards ELSE cards
           /\ last' = Ev(out, order.id)
    /\ UNCHANGED <<page, orphans, orphansR, loose, containerVisible, loadingVisible,
                   fetches, nav, removedIds, others>>

Dom_Next ==
    \/ Dom_loadAvailableOrders
    \/ \E success \in BOOLEAN, orders \in OrderLists : Dom_snapshotResponse(success, orders)
    \/ Dom_snapshotError
    \/ \E order \in Order : Dom_handleNewOrder(order)
    \/ \E order \in Order : Dom_addOrderToAvailableOrders(order)

SpecDom == Dom_Init /\ [][Dom_Next]_vars

\* C18: with the order container or the card template absent, an add from a
\* push or from a snapshot inserts no card, ends without an exception and leaves
\* the displayed orders as they were
MissingTargetSkipsAdd ==
    [][(~(hasContainer /\ hasTemplate)
           /\ last'.op \in {"add", "addDup", "addSkipped", "addThrew", "snapshot"}) =>
          (last'.op # "addThrew" /\ cards' = cards /\ Displayed' = Displayed)]_vars

\* C22: in rider_dashboard.js, with container and template present, the handler
\* of a push add runs to completion without an uncaught error, for a new order
\* and for an order that has a card
AddRunsToCompletion ==
    (page = "RD" /\ hasContainer /\ hasTemplate) =>
        last.op \notin {"addThrew", "addedThrew"}

\* C23: in rider_available_orders.js a push add shows the 'New Order!' toast
\* exactly when it inserted a card, and none when a card of the id was there
ToastOnlyForInsertedOrder ==
    (page = "AO" /\ last.op \in {"add", "addDup"}) =>
        (last.toast <=> last.op = "add")

\* C24: in rider_available_orders.js, with no snapshot fetch in flight and no
\* removal timer armed, the 'no orders' message is visible exactly when the
\* container holds no card, and the container exactly when it holds one
EmptyStateConsistent ==
    (page = "AO" /\ TotalFetches = 0 /\ TotalTimers = 0) =>
        /\ noOrdersVisible <=> cards = <<>>
        /\ containerVisible <=> cards # <<>>

\* C25: in rider_available_orders.js every 'reconnect' event delivered to the
\* socket issues a snapshot fetch, and the response of a fetch, once applied,
\* makes the displayed orders those the server listed
ReconnectReloads ==
    [][/\ (page = "AO" /\ socket.st = "reconnecting" /\ socket'.st = "opened") =>
              /\ TotalFetches' = TotalFetches + 1
              /\ loadingVisible'
       /\ (page = "AO" /\ last'.op = "snapshot" /\ last'.list # <<>>) =>
              /\ Len(Displayed') = Len(last'.list)
              /\ {CardOrders(Displayed')[i] : i \in 1..Len(Displayed')} =
                     {last'.list[i] : i \in 1..Len(last'.list)}]_vars

\* the 'reconnect' handler has just run on a page that held a card
ReconnectReloadsWitness ==
    /\ page = "AO"
    /\ socket.st = "opened"
    /\ last.op = "load"
    /\ TotalFetches = 1
    /\ cards # <<>>

\* C26: in RiderWebSocket every new_delivery_available push issues a snapshot
\* fetch, whatever the shape of its payload
NewDeliveryRefreshes ==
    [][(page = "RW" /\ last'.op \in {"newDelivery", "newDeliveryThrew"}) =>
          TotalFetches' = TotalFetches + 1]_vars

\* ---- class SellerWebSocket: the order list of the seller page --------------
MaxLoads == 2           \* loadOrders requests in flight
MaxPages == 2           \* pages of a tab's order list

Tabs == {"all", "pending"}            \* data-status of the order tabs

Query == [status : Tabs, pg : 1..MaxPages]

\* setupEventListeners: loadOrders(status) for the active tab is on its way
Loads_Init ==
    /\ page = "SW"
    /\ IdleCards
    /\ last = Ev("init", 0)
    /\ sellerShown = "pending" /\ sellerReqs = <<>> /\ sellerToast = "none"
    /\ sellerTab \in {q \in Query : q.pg = 1}
    /\ sellerLoads = <<sellerTab>>
    /\ sellerList = NoList
    /\ sellerPager = "none"
    /\ IdlePull /\ IdleConn /\ DomPresent

\* loadOrders(q.status, q.pg) up to the fetch: the container is emptied, the
\* pagination stays
loadOrders(q) ==
    /\ page = "SW"
    /\ Len(sellerLoads) < MaxLoads
    /\ sellerLoads' = Append(sellerLoads, q)
    /\ sellerList' = NoList
    /\ sellerTab' = q
    /\ UNCHANGED <<page, cards, orphans, orphansR, loose, containerVisible,
                   noOrdersVisible, loadingVisible, fetches, nav, removedIds,
                   sellerShown, sellerReqs, sellerToast, sellerPager,
                   pullVars, connVars, domVars>>

\* the shown.bs.tab listener of an order tab
Loads_tabShown(status) ==
    /\ loadOrders([status |-> status, pg |-> 1])
    /\ last' = Ev("tabShown", 0)

\* the click listener updatePagination puts on a page link
Loads_pageClick(pg) ==
    /\ sellerPager # "none"
    /\ loadOrders([status |-> sellerPager, pg |-> pg])
    /\ last' = Ev("pageClick", 0)

\* what the container shows after the response of request q was parsed
renderedList(q, nonEmpty) ==
    [status |-> q.status, pg |-> q.pg, kind |-> IF nonEmpty THEN "orders" ELSE "empty"]

\* loadOrders after the fetch of request j, response.ok: renderOrders and
\* updatePagination, or showNoOrdersMessage; paged is data.has_prev || data.has_next
Loads_ordersResponse(j, nonEmpty, paged) ==
    /\ page = "SW"
    /\ j \in 1..Len(sellerLoads)
    /\ sellerList' = renderedList(sellerLoads[j], nonEmpty)
    /\ sellerPager' = IF ~nonEmpty THEN sellerPager
                      ELSE IF paged THEN sellerLoads[j].status ELSE "none"
    /\ sellerLoads' = RemoveAt(sellerLoads, j)
    /\ last' = Ev("ordersShown", 0)
    /\ UNCHANGED <<page, cards, orphans, orphansR, loose, containerVisible,
                   noOrdersVisible, loadingVisible, fetches, nav, removedIds,
                   sellerShown, sellerReqs, sellerToast, sellerTab,
                   pullVars, connVars, domVars>>

\* the catch of loadOrders for request j: response not ok, fetch or json() rejected
Loads_ordersError(j) ==
    /\ page = "SW"
    /\ j \in 1..Len(sellerLoads)
    /\ sellerToast' = "error"
    /\ sellerLoads' = RemoveAt(sellerLoads, j)
    /\ last' = Ev("ordersError", 0)
    /\ UNCHANGED <<page, cards, orphans, orphansR, loose, containerVisible,
                   noOrdersVisible, loadingVisible, fetches, nav, removedIds,
                   sellerShown, sellerReqs, sellerList, sellerPager, sellerTab,
                   pullVars, connVars, domVars>>

Loads_Next ==
    \/ \E status \in Tabs : Loads_tabShown(status)
    \/ \E pg \in 1..MaxPages : Loads_pageClick(pg)
    \/ \E j \in 1..MaxLoads, nonEmpty \in BOOLEAN, paged \in BOOLEAN :
           Loads_ordersResponse(j, nonEmpty, paged)
    \/ \E j \in 1..MaxLoads : Loads_ordersError(j)

SpecLoads == Loads_Init /\ [][Loads_Next]_vars

\* C27: once every loadOrders response has been applied (none of them failed),
\* the container shows the list of the status and page that were asked for last
LastRequestedListShown ==
    (page = "SW" /\ sellerLoads = <<>> /\ sellerToast = "none" /\ last.op = "ordersShown") =>
        (sellerList.status = sellerTab.status /\ sellerList.pg = sellerTab.pg)

\* the statuses an order does not leave
Terminal == {"delivered", "cancelled"}

\* C28: the status an order card shows never changes from delivered or cancelled
\* to another one; checked here for the steps that apply a success response to
\* one of the seller's own status-change requests, pushes arriving in between
TerminalStatusStays ==
    [][(page = "SW" /\ sellerShown \in Terminal /\ last'.op = "statusOk") =>
          sellerShown' = sellerShown]_vars

\* the status changes the claim lists
OfferedTransitions ==
    {<<"pending", "confirmed">>, <<"pending", "cancelled">>,
     <<"confirmed", "shipped">>, <<"confirmed", "cancelled">>,
     <<"shipped", "delivered">>, <<"out_for_delivery", "delivered">>}

\* C29: getStatusButtons offers a control for exactly the listed status changes,
\* none for delivered, cancelled or an unknown status, and every click on a
\* status button asks for a listed change of the status the card shows
ButtonsOfferExactly ==
    [][/\ \A a \in Statuses \cup {"undefined"}, b \in Statuses :
              b \in getStatusButtons(a) <=> <<a, b>> \in OfferedTransitions
       /\ (page = "SW" /\ last'.op = "statusUpdate") =>
              /\ sellerShown \notin Terminal \cup {"undefined"}
              /\ <<sellerShown, sellerReqs'[Len(sellerReqs')].to>> \in OfferedTransitions]_vars

\* the seller clicked 'Mark as Delivered' on an order out for delivery
ButtonsOfferExactlyWitness ==
    /\ page = "SW"
    /\ last.op = "statusUpdate"
    /\ sellerShown = "out_for_delivery"
    /\ sellerReqs = <<[to |-> "delivered", attached |-> TRUE]>>

\* C30: in rider_available_orders.js an order_accepted push naming another rider
\* fades the card of its order, whose timer then removes exactly that card; one
\* naming this rider leaves the cards and what is displayed as they are
AcceptedByOtherRemoves ==
    [][/\ (page = "AO" /\ last'.op = "acceptedBySelf") =>
              (cards' = cards /\ Displayed' = Displayed)
       /\ (page = "AO" /\ last'.op = "acceptedByOther") =>
              /\ Len(cards') = Len(cards)
              /\ \A i \in 1..Len(cards) :
                     cards'[i] = IF cards[i].id = last'.id
                                 THEN [cards[i] EXCEPT !.arm = @ + 1]
                                 ELSE cards[i]
       /\ (page = "AO" /\ last'.op = "fadeTimer" /\ last'.id # 0) =>
              cards' = Without(cards, last'.id)]_vars

\* the push names this rider while the rider's own accept request is in flight
AcceptedByOtherRemovesWitness ==
    /\ page = "AO"
    /\ last.op = "acceptedBySelf"
    /\ HasId(Displayed, last.id)
    /\ PendingFor(last.id) > 0
====
